---------------------------- MODULE Spec2Model ----------------------------
(***************************************************************************)
(* A model of PokerOddsCalculator.py: the card codes and parse_card, the   *)
(* hand classifier analyze_hand, the deuces evaluator as the program uses  *)
(* it, the three Monte Carlo simulators and the Calculate / Reset handlers *)
(* of the window with its preflop cache.                                   *)
(*                                                                         *)
(* A card code is a sequence of one-character strings, <<"A", "s">> for    *)
(* 'As'; the empty sequence is the empty string ''.                        *)
(***************************************************************************)
EXTENDS Integers, Sequences, FiniteSets, TLC

VARIABLES
    \* ---- parse_card probe
    card,              \* the argument of parse_card
    parsed,            \* what parse_card returned (None before the call)
    \* ---- analyze_hand / deuces_hand_strength probe
    cards,             \* the card list handed to analyze_hand
    hand_analysis,     \* analyze_hand's label
    deuces_strength,   \* deuces_hand_strength's class string
    returned,          \* whether the probed function has returned
    \* ---- one run of a Monte Carlo simulator
    mc,
    \* ---- the window
    card_inputs,       \* currentData of the 7 dropdowns, '' as <<>>
    players_spin,
    preflop_cache,     \* self.preflop_cache
    cache_file,        \* the state of preflop_cache.pkl on disk
    results_area,      \* what the last handler wrote to the results area
    calls,             \* the functions the last handler invoked, with their arguments
    seen,              \* what each preflop query of this process first returned
    process            \* "running", or "aborted" once a slot raised

vars == <<card, parsed, cards, hand_analysis, deuces_strength, returned, mc,
          card_inputs, players_spin, preflop_cache, cache_file,
          results_area, calls, seen, process>>

\* Python's None, where a card code (a sequence) is expected
None == <<"None">>

-----------------------------------------------------------------------------
(* Characters and strings *)

\* U+017F (long s) and U+212A (Kelvin sign): the two non-ASCII characters
\* that re.IGNORECASE folds onto the letters s and k.
LongS == "U+017F"
KelvinK == "U+212A"

Whitespace == {" ", "\t", "\n"}

\* str.lower() on one character
Lower(ch) ==
    CASE ch = "A" -> "a" [] ch = "K" -> "k" [] ch = "Q" -> "q"
      [] ch = "J" -> "j" [] ch = "T" -> "t" [] ch = "S" -> "s"
      [] ch = "H" -> "h" [] ch = "D" -> "d" [] ch = "C" -> "c"
      [] ch = "X" -> "x" [] ch = KelvinK -> "k"
      [] OTHER -> ch

\* str.upper() on one character
Upper(ch) ==
    CASE ch = "a" -> "A" [] ch = "k" -> "K" [] ch = "q" -> "Q"
      [] ch = "j" -> "J" [] ch = "t" -> "T" [] ch = "s" -> "S"
      [] ch = "h" -> "H" [] ch = "d" -> "D" [] ch = "c" -> "C"
      [] ch = "x" -> "X" [] ch = LongS -> "S"
      [] OTHER -> ch

\* the case folding re.IGNORECASE compares characters under
CaseFold(ch) == IF ch = LongS THEN "s" ELSE Lower(ch)

lower(s) == [i \in 1..Len(s) |-> Lower(s[i])]

RECURSIVE lstrip(_)
lstrip(s) == IF s # <<>> /\ Head(s) \in Whitespace THEN lstrip(Tail(s)) ELSE s

RECURSIVE rstrip(_)
rstrip(s) ==
    IF s # <<>> /\ s[Len(s)] \in Whitespace
    THEN rstrip(SubSeq(s, 1, Len(s) - 1)) ELSE s

strip(s) == rstrip(lstrip(s))

-----------------------------------------------------------------------------
(* Module constants *)

RANKS == <<"2", "3", "4", "5", "6", "7", "8", "9", "T", "J", "Q", "K", "A">>
SUITS == <<"s", "h", "d", "c">>
SUIT_ORDER == <<"c", "d", "h", "s">>

RankChars == {RANKS[i] : i \in 1..Len(RANKS)}
SuitChars == {SUITS[i] : i \in 1..Len(SUITS)}

\* RANK_TO_VALUE = {r: i for i, r in enumerate(RANKS, 2)}
RANK_TO_VALUE == [r \in RankChars |-> 1 + CHOOSE i \in 1..Len(RANKS) : RANKS[i] = r]

\* the codes of CARD_OPTIONS: (f'{r}{s}' for s in SUIT_ORDER for r in RANKS)
CARD_OPTIONS == {<<r, s>> : r \in RankChars, s \in SuitChars}

\* CARD_PATTERN = re.compile(r'^[2-9TJQKA][shdc]$', re.IGNORECASE), matched
\* with .match(): one character of each class, compared case-insensitively,
\* and '$' also matches before a final newline.
InClass(ch, class) == \E x \in class : CaseFold(x) = CaseFold(ch)

CARD_PATTERN_match(s) ==
    /\ \/ Len(s) = 2
       \/ Len(s) = 3 /\ s[3] = "\n"
    /\ InClass(s[1], RankChars)
    /\ InClass(s[2], SuitChars)

parse_card(c) ==
    LET stripped == lower(strip(c))
    IN  IF CARD_PATTERN_match(stripped) THEN stripped ELSE None

-----------------------------------------------------------------------------
(* analyze_hand *)

Max(S) == CHOOSE x \in S : \A y \in S : y <= x
Min(S) == CHOOSE x \in S : \A y \in S : x <= y

\* sorted(S, reverse=True) of a set of integers
RECURSIVE SortedDesc(_)
SortedDesc(S) == IF S = {} THEN <<>> ELSE <<Max(S)>> \o SortedDesc(S \ {Max(S)})

\* collections.Counter of a list: element -> number of occurrences
Counter(list) ==
    [x \in {list[i] : i \in 1..Len(list)} |->
        Cardinality({i \in 1..Len(list) : list[i] = x})]

CounterValues(counter) == {counter[x] : x \in DOMAIN counter}

\* the position of x's first occurrence: a Counter iterates in that order
FirstIndex(list, x) == Min({i \in 1..Len(list) : list[i] = x})

\* get_straight without the wheel branch (lines 67-68 dropped)
get_straight_NoWheel(ranks_list) ==
    LET values == SortedDesc({RANK_TO_VALUE[ranks_list[i]] : i \in 1..Len(ranks_list)})
        hits == {i \in 1..(Len(values) - 4) : values[i] - values[i + 4] = 4}
    IN  IF hits # {} THEN <<TRUE, values[Min(hits)]>> ELSE <<FALSE, 0>>

\* get_straight(ranks_list) -> (is_straight, high value); (False, None) as <<FALSE, 0>>
get_straight(ranks_list) ==
    LET present == {ranks_list[i] : i \in 1..Len(ranks_list)}
        sorted == SortedDesc({RANK_TO_VALUE[r] : r \in present})
        values == IF {"A", "2", "3", "4", "5"} \subseteq present
                  THEN Append(sorted, 1) ELSE sorted
        hits == {i \in 1..(Len(values) - 4) : values[i] - values[i + 4] = 4}
    IN  IF hits # {} THEN <<TRUE, values[Min(hits)]>> ELSE <<FALSE, 0>>

\* lines 78-80 with the ace-high case dropped
sf_label_NoRoyal(high_sf) == "Straight Flush"

\* lines 78-80: the label of a straight flush whose high card is high_sf
sf_label(high_sf) == IF high_sf = 14 THEN "Royal Flush" ELSE "Straight Flush"

\* line 99 with > for >=
is_two_pair_Strict(count_values) ==
    Cardinality({i \in 1..Len(count_values) : count_values[i] = 2}) > 2

\* line 99: list(rank_counts.values()).count(2) >= 2
is_two_pair(count_values) ==
    Cardinality({i \in 1..Len(count_values) : count_values[i] = 2}) >= 2

SelectIdx(list, Keep(_)) ==
    LET idx == {i \in 1..Len(list) : Keep(list[i])}
    IN  [k \in 1..Cardinality(idx) |->
            list[CHOOSE i \in idx : Cardinality({j \in idx : j < i}) = k - 1]]

analyze_hand(cs) ==
    IF Len(cs) < 5 THEN "Not enough cards for hand analysis."
    ELSE
    LET ranks == [i \in 1..Len(cs) |-> Upper(cs[i][1])]
        suits == [i \in 1..Len(cs) |-> Lower(cs[i][2])]
        rank_counts == Counter(ranks)
        suit_counts == Counter(suits)
        flushing == {s \in DOMAIN suit_counts : suit_counts[s] >= 5}
        has_flush == flushing # {}
        flush_suit == CHOOSE s \in flushing :
                         \A t \in flushing : FirstIndex(suits, s) <= FirstIndex(suits, t)
        InFlush(c) == c[2] = flush_suit
        flush_cards == IF has_flush THEN SelectIdx(cs, InFlush) ELSE <<>>
        flush_ranks == [i \in 1..Len(flush_cards) |-> Upper(flush_cards[i][1])]
        sf == get_straight(flush_ranks)
        counts == CounterValues(rank_counts)
        value_list == [k \in 1..Cardinality(DOMAIN rank_counts) |->
                         rank_counts[CHOOSE r \in DOMAIN rank_counts :
                             Cardinality({q \in DOMAIN rank_counts :
                                 FirstIndex(ranks, q) < FirstIndex(ranks, r)}) = k - 1]]
        top == CHOOSE r \in DOMAIN rank_counts :
                  \A q \in DOMAIN rank_counts : RANK_TO_VALUE[q] <= RANK_TO_VALUE[r]
    IN  IF has_flush /\ Len(flush_ranks) >= 5 /\ sf[1]
        THEN sf_label(sf[2])
        ELSE IF 4 \in counts THEN "Four of a Kind"
        ELSE IF 3 \in counts /\ 2 \in counts THEN "Full House"
        ELSE IF has_flush THEN "Flush"
        ELSE IF get_straight(ranks)[1] THEN "Straight"
        ELSE IF 3 \in counts THEN "Three of a Kind"
        ELSE IF is_two_pair(value_list) THEN "Two Pair"
        ELSE IF 2 \in counts THEN "Pair"
        ELSE "High Card: " \o top

-----------------------------------------------------------------------------
(* The deuces library as the program uses it: Card.new, Evaluator.evaluate, *)
(* Evaluator.get_rank_class, Evaluator.class_to_string, Deck.               *)
(* deuces numbers the 7462 distinct five-card hands from 1, the strongest.  *)
(* The program only compares these ranks (<, ==, min) and takes their rank  *)
(* class, so the model keeps the order and the nine classes and not the     *)
(* numbers: a hand's rank is (class - 1) * ClassSpan + (what is left of     *)
(* ClassSpan after the kickers), lower is stronger.                         *)

\* to_deuces(card) = Card.new(card[0].upper() + card[1].lower()):
\* the model's card integer is 4 * (rank index 0..12) + (suit index 0..3)
to_deuces(c) ==
    4 * (RANK_TO_VALUE[Upper(c[1])] - 2)
      + ((CHOOSE i \in 1..Len(SUITS) : SUITS[i] = Lower(c[2])) - 1)

CardRank(d) == d \div 4
CardSuit(d) == d % 4

ClassSpan == 13 * 13 * 13 * 13 * 13
Pow13 == <<1, 13, 169, 2197, 28561>>

\* Evaluator._five: the rank of exactly five cards.  FiveClass decides the
\* class and the tiebreak from the set of ranks R, the largest number of
\* cards of one rank, the kickers and whether the five share a suit.
FiveClass(R, most, kick, flush) ==
    LET wheel == R = {12, 0, 1, 2, 3}
        straight == Cardinality(R) = 5 /\ (Max(R) - Min(R) = 4 \/ wheel)
        class == IF straight /\ flush THEN 1
                 ELSE IF most = 4 THEN 2
                 ELSE IF most = 3 /\ Cardinality(R) = 2 THEN 3
                 ELSE IF flush THEN 4
                 ELSE IF straight THEN 5
                 ELSE IF most = 3 THEN 6
                 ELSE IF most = 2 /\ Cardinality(R) = 3 THEN 7
                 ELSE IF most = 2 THEN 8
                 ELSE 9
        tiebreak == IF straight THEN (IF wheel THEN 3 ELSE Max(R)) ELSE kick
    IN  (class - 1) * ClassSpan + (ClassSpan - 1 - tiebreak)

\* where card i stands when the five are ordered by (cards of its rank,
\* rank), strongest first: key[i] = 13 * (cards of its rank) + rank
KeyPos(key, i) ==
    1 + Cardinality({j \in 1..5 : key[j] > key[i] \/ (key[j] = key[i] /\ j < i)})

FiveKeyed(r, key, flush) ==
    FiveClass({r[i] : i \in 1..5},
              Max({key[i] : i \in 1..5}) \div 13,
              r[1] * Pow13[6 - KeyPos(key, 1)] + r[2] * Pow13[6 - KeyPos(key, 2)]
                + r[3] * Pow13[6 - KeyPos(key, 3)] + r[4] * Pow13[6 - KeyPos(key, 4)]
                + r[5] * Pow13[6 - KeyPos(key, 5)],
              flush)

FiveRanked(r, flush) ==
    FiveKeyed(r, [i \in 1..5 |-> 13 * Cardinality({j \in 1..5 : r[j] = r[i]}) + r[i]], flush)

\* Card.PRIMES: one prime per rank, so that a product names a multiset of ranks
PRIMES == <<2, 3, 5, 7, 11, 13, 17, 19, 23, 29, 31, 37, 41>>

PrimeProduct(r) ==
    PRIMES[r[1] + 1] * PRIMES[r[2] + 1] * PRIMES[r[3] + 1] * PRIMES[r[4] + 1] * PRIMES[r[5] + 1]

\* every five ranks, highest first, that five cards of one deck can show
RankTuples ==
    UNION {UNION {UNION {UNION {
        {<<a, b, c, d, e>> : e \in {x \in 0..d : x < a}}
        : d \in 0..c} : c \in 0..b} : b \in 0..a} : a \in 0..12}

DistinctRankTuples ==
    {t \in RankTuples : t[1] > t[2] /\ t[2] > t[3] /\ t[3] > t[4] /\ t[4] > t[5]}

\* the ranks a prime product stands for, lowest first
RECURSIVE Factors(_, _)
Factors(p, k) ==
    IF p = 1 THEN <<>>
    ELSE IF p % PRIMES[k] = 0 THEN <<k - 1>> \o Factors(p \div PRIMES[k], k)
    ELSE Factors(p, k + 1)

\* LookupTable.flush_lookup and LookupTable.unsuited_lookup: prime product -> rank
flush_lookup ==
    [p \in {PrimeProduct(t) : t \in DistinctRankTuples} |-> FiveRanked(Factors(p, 1), TRUE)]

unsuited_lookup ==
    [p \in {PrimeProduct(t) : t \in RankTuples} |-> FiveRanked(Factors(p, 1), FALSE)]

five(h) ==
    IF \A i \in 2..5 : CardSuit(h[i]) = CardSuit(h[1])
    THEN flush_lookup[PrimeProduct([i \in 1..5 |-> CardRank(h[i])])]
    ELSE unsuited_lookup[PrimeProduct([i \in 1..5 |-> CardRank(h[i])])]

\* itertools.combinations(range(n), 5), as index sets
Combinations5(n) == {S \in SUBSET (1..n) : Cardinality(S) = 5}

IndexSeq(S) == [k \in 1..Cardinality(S) |->
                  CHOOSE i \in S : Cardinality({j \in S : j < i}) = k - 1]

Combos6 == {IndexSeq(S) : S \in Combinations5(6)}
Combos7 == {IndexSeq(S) : S \in Combinations5(7)}

\* hand_size_map[len(all_cards)](all_cards): _five, _six or _seven, the
\* last two the minimum of _five over the five-card combinations
BestFive(all) ==
    IF Len(all) = 5 THEN five(all)
    ELSE IF Len(all) = 6
    THEN Min({five([k \in 1..5 |-> all[ix[k]]]) : ix \in Combos6})
    ELSE Min({five([k \in 1..5 |-> all[ix[k]]]) : ix \in Combos7})

\* Evaluator.evaluate(cards, board): the best rank over the five-card
\* combinations of cards + board (KeyError unless 5, 6 or 7 cards)
evaluate(cs, board) == BestFive(cs \o board)

\* Evaluator.get_rank_class(rank): 1 (Straight Flush) .. 9 (High Card)
get_rank_class(rank) == (rank \div ClassSpan) + 1

\* Evaluator.class_to_string / LookupTable.RANK_CLASS_TO_STRING
class_to_string(class) ==
    <<"Straight Flush", "Four of a Kind", "Full House", "Flush", "Straight",
      "Three of a Kind", "Two Pair", "Pair", "High Card">>[class]

deuces_hand_strength(hand_cards, board_cards) ==
    LET hand == [i \in 1..Len(hand_cards) |-> to_deuces(hand_cards[i])]
        board == [i \in 1..Len(board_cards) |-> to_deuces(board_cards[i])]
        rank == evaluate(board, hand)
    IN  class_to_string(get_rank_class(rank))

-----------------------------------------------------------------------------
(* The Monte Carlo simulators *)

\* QSpinBox minimum and maximum of the player count (lines 339-340)
MIN_PLAYERS == 2
MAX_PLAYERS == 10

\* a spin box that lets the player count grow past the deck
PlayerCounts_Wide == MIN_PLAYERS..(3 * MAX_PLAYERS)

PlayerCounts == MIN_PLAYERS..MAX_PLAYERS

\* Deck.GetFullDeck(): the 52 cards, rank by rank
DeckSize == Len(RANKS) * Len(SUITS)
FullDeck == [i \in 1..DeckSize |-> i - 1]

\* Deck() shuffles the full deck with random.shuffle.  The model draws the
\* permutation from a family of MaxShuffles: shuffle k deals the full deck
\* from position Start(k) in steps of Stride(k) (each stride is coprime to 52).
MaxShuffles == 3
Strides == <<1, 5, 11, 3, 7, 9, 15, 17, 19, 21, 23, 25>>
Stride(k) == Strides[((k - 1) % Len(Strides)) + 1]
Start(k) == (17 * k) % DeckSize
ShuffledDecks ==
    [k \in 1..MaxShuffles |->
        [i \in 1..DeckSize |-> FullDeck[((Start(k) + (i - 1) * Stride(k)) % DeckSize) + 1]]]
Shuffled(k) == ShuffledDecks[k]

InList(list, x) == \E i \in 1..Len(list) : list[i] = x

\* list.remove(x): drops the first x (ValueError when there is none)
remove(list, x) ==
    LET at == FirstIndex(list, x)
    IN  SubSeq(list, 1, at - 1) \o SubSeq(list, at + 1, Len(list))

\* for c in known: deck.cards.remove(to_deuces(c)), ValueError when a card
\* is not in the deck any more
RECURSIVE remove_known(_, _)
remove_known(deck, known) ==
    IF known = <<>> THEN [error |-> "none", cards |-> deck]
    ELSE IF ~InList(deck, Head(known)) THEN [error |-> "ValueError", cards |-> deck]
    ELSE remove_known(remove(deck, Head(known)), Tail(known))

\* n times deck.draw(1), each a pop(0) of deck.cards (IndexError when the
\* deck is empty): the cards drawn and the deck left
draw(d, n) ==
    IF d.error # "none" THEN [error |-> d.error, cards |-> d.cards, drawn |-> <<>>]
    ELSE IF n > Len(d.cards)
    THEN [error |-> "IndexError", cards |-> <<>>, drawn |-> d.cards]
    ELSE [error |-> "none",
          cards |-> SubSeq(d.cards, n + 1, Len(d.cards)),
          drawn |-> SubSeq(d.cards, 1, n)]

Deuces(codes) == [i \in 1..Len(codes) |-> to_deuces(codes[i])]

\* lines 146-151 with the final else dropped
odds_outcome_NoElse(hero_score, opp_scores) ==
    IF hero_score < Min({opp_scores[i] : i \in 1..Len(opp_scores)}) THEN "win"
    ELSE IF hero_score > Min({opp_scores[i] : i \in 1..Len(opp_scores)}) THEN "loss"
    ELSE "none"

\* lines 146-151 with <= for <
odds_outcome_WinsTies(hero_score, opp_scores) ==
    IF hero_score <= Min({opp_scores[i] : i \in 1..Len(opp_scores)}) THEN "win"
    ELSE "loss"

\* lines 146-151: which counter a trial of monte_carlo_odds increments
odds_outcome(hero_score, opp_scores) ==
    IF hero_score < Min({opp_scores[i] : i \in 1..Len(opp_scores)}) THEN "win"
    ELSE IF hero_score = Min({opp_scores[i] : i \in 1..Len(opp_scores)}) THEN "tie"
    ELSE "loss"

\* lines 215-218: which counter a trial of monte_carlo_preflop_distributions
\* increments; it keeps no loss counter
preflop_outcome(hero_score, opp_scores) ==
    IF hero_score < Min({opp_scores[i] : i \in 1..Len(opp_scores)}) THEN "win"
    ELSE IF hero_score = Min({opp_scores[i] : i \in 1..Len(opp_scores)}) THEN "tie"
    ELSE "none"

\* lines 139-142 with each opponent's second card dealt again as the next
\* opponent's first
dealt_Overlapping(boarded, opponents_drawn, board) ==
    [error |-> opponents_drawn.error,
     sim_board |-> board \o boarded.drawn,
     opp_hands |-> [j \in 1..(Len(opponents_drawn.drawn) \div 2) |->
                      SubSeq(opponents_drawn.drawn, j, j + 1)],
     deck |-> opponents_drawn.cards]

\* lines 136-142: the board is completed from the deck, then each opponent
\* draws two cards.  d is the shuffled deck less the known cards.
dealt(boarded, opponents_drawn, board) ==
    [error |-> opponents_drawn.error,
     sim_board |-> board \o boarded.drawn,
     opp_hands |-> [j \in 1..(Len(opponents_drawn.drawn) \div 2) |->
                      SubSeq(opponents_drawn.drawn, 2 * j - 1, 2 * j)],
     deck |-> opponents_drawn.cards]

deal_opponents(boarded, board, opponents) ==
    dealt(boarded, draw(boarded, 2 * opponents), board)

deal(d, board, opponents) ==
    deal_opponents(IF 5 - Len(board) > 0 THEN draw(d, 5 - Len(board))
                   ELSE [error |-> d.error, cards |-> d.cards, drawn |-> <<>>],
                   board, opponents)

\* one iteration of monte_carlo_odds (lines 131-151) under shuffle k
odds_trial(k, hand_cards, board_cards, num_players) ==
    deal(remove_known(Shuffled(k), Deuces(hand_cards \o board_cards)),
         Deuces(board_cards), num_players - 1)

scores(d, hand) ==
    [hero_score |-> evaluate(d.sim_board, hand),
     opp_scores |-> [j \in 1..Len(d.opp_hands) |-> evaluate(d.sim_board, d.opp_hands[j])]]

\* {i: 0 for i in range(1, 10)}
ZeroCounts == [i \in 1..9 |-> 0]

\* the state of one call of a simulator: its arguments, its locals after the
\* last iteration, the exception it raised and what it returned
Call(fn, hand_cards, board_cards, num_players, num_trials) ==
    [fn |-> fn, hand_cards |-> hand_cards, board_cards |-> board_cards,
     num_players |-> num_players, num_trials |-> num_trials,
     trial |-> 0, raised |-> "none", returned |-> FALSE,
     wins |-> 0, ties |-> 0, losses |-> 0, win |-> 0, tie |-> 0,
     hand_type_counts |-> ZeroCounts,
     flop_counts |-> ZeroCounts, turn_counts |-> ZeroCounts, river_counts |-> ZeroCounts,
     deck |-> <<>>, sim_board |-> <<>>, opp_hands |-> <<>>,
     hero_score |-> 0, opp_scores |-> <<>>,
     win_pct |-> <<0, 1>>, tie_pct |-> <<0, 1>>]

\* 100 * count / num_trials, kept exact as <<numerator, denominator>>
Pct(count, num_trials) == <<100 * count, num_trials>>

Bump(counts, class) == [counts EXCEPT ![class] = @ + 1]

\* monte_carlo_odds, lines 130-151: the locals after one more iteration
odds_tally(m, d, hero_score, opp_scores, outcome) ==
    [m EXCEPT !.trial = @ + 1,
              !.wins = IF outcome = "win" THEN @ + 1 ELSE @,
              !.ties = IF outcome = "tie" THEN @ + 1 ELSE @,
              !.losses = IF outcome = "loss" THEN @ + 1 ELSE @,
              !.deck = d.deck, !.sim_board = d.sim_board, !.opp_hands = d.opp_hands,
              !.hero_score = hero_score, !.opp_scores = opp_scores]

odds_scored(m, d, sc) ==
    odds_tally(m, d, sc.hero_score, sc.opp_scores, odds_outcome(sc.hero_score, sc.opp_scores))

odds_iteration(m, d) ==
    IF d.error # "none" THEN [m EXCEPT !.raised = d.error]
    ELSE odds_scored(m, d, scores(d, Deuces(m.hand_cards)))

\* monte_carlo_hand_distribution, lines 169-177
distribution_iteration(m, d) ==
    IF d.error # "none" THEN [m EXCEPT !.raised = d.error]
    ELSE [m EXCEPT !.trial = @ + 1,
                   !.hand_type_counts =
                       Bump(@, get_rank_class(evaluate(d.sim_board, Deuces(m.hand_cards)))),
                   !.deck = d.deck, !.sim_board = d.sim_board]

\* monte_carlo_preflop_distributions, lines 189-218: flop, turn and river
\* are the first 3, 4 and 5 cards drawn, the opponents draw after the river
preflop_tally(m, d, hand, river_rank, opp_scores) ==
    [m EXCEPT !.trial = @ + 1,
              !.flop_counts = Bump(@, get_rank_class(evaluate(SubSeq(d.sim_board, 1, 3), hand))),
              !.turn_counts = Bump(@, get_rank_class(evaluate(SubSeq(d.sim_board, 1, 4), hand))),
              !.river_counts = Bump(@, get_rank_class(river_rank)),
              !.win = IF preflop_outcome(river_rank, opp_scores) = "win" THEN @ + 1 ELSE @,
              !.tie = IF preflop_outcome(river_rank, opp_scores) = "tie" THEN @ + 1 ELSE @,
              !.deck = d.deck, !.sim_board = d.sim_board, !.opp_hands = d.opp_hands,
              !.hero_score = river_rank, !.opp_scores = opp_scores]

preflop_scored(m, d, hand, sc) == preflop_tally(m, d, hand, sc.hero_score, sc.opp_scores)

preflop_iteration(m, d) ==
    IF d.error # "none" THEN [m EXCEPT !.raised = d.error]
    ELSE preflop_scored(m, d, Deuces(m.hand_cards), scores(d, Deuces(m.hand_cards)))

\* one iteration of monte_carlo_hand_distribution (lines 170-174) and of
\* monte_carlo_preflop_distributions (lines 190-212) under shuffle k
distribution_trial(k, hand_cards, board_cards) ==
    deal(remove_known(Shuffled(k), Deuces(hand_cards \o board_cards)),
         Deuces(board_cards), 0)

preflop_trial(k, hand_cards, num_players) ==
    deal(remove_known(Shuffled(k), Deuces(hand_cards)), <<>>, num_players - 1)

-----------------------------------------------------------------------------
(* Rest states of the parts a specification does not exercise *)

ProbeIdle ==
    /\ card = <<>> /\ parsed = None
    /\ cards = <<>> /\ hand_analysis = "" /\ deuces_strength = ""
    /\ returned = FALSE

McIdle == mc = [fn |-> "idle"]

WindowIdle ==
    /\ card_inputs = [i \in 1..7 |-> <<>>]
    /\ players_spin = 2
    /\ preflop_cache = [kind |-> "dict", entries |-> <<>>]
    /\ cache_file = "missing"
    /\ results_area = [kind |-> "cleared"]
    /\ calls = {}
    /\ seen = <<>>
    /\ process = "running"

probe_vars == <<card, parsed, cards, hand_analysis, deuces_strength, returned>>
window_vars == <<card_inputs, players_spin, preflop_cache, cache_file,
                 results_area, calls, seen, process>>

-----------------------------------------------------------------------------
(* The simulators on their own: each called once on arguments drawn from   *)
(* SimHands, SimBoards, PlayerCounts and 1..MaxTrials                      *)

MaxTrials == 2

SimHands ==
    { << <<"A","s">>, <<"K","h">> >>, << <<"2","c">>, <<"7","d">> >> }

SimBoards ==
    { <<>>,
      << <<"Q","d">>, <<"J","c">>, <<"9","h">> >>,
      << <<"Q","d">>, <<"J","c">>, <<"9","h">>, <<"2","s">> >>,
      << <<"Q","d">>, <<"J","c">>, <<"9","h">>, <<"2","s">>, <<"5","c">> >>,
      << <<"A","d">>, <<"K","d">>, <<"Q","d">>, <<"J","d">>, <<"T","d">> >> }

SimCalls ==
    {Call("monte_carlo_odds", h, b, p, n) :
        h \in SimHands, b \in SimBoards, p \in PlayerCounts, n \in 1..MaxTrials}
    \cup {Call("monte_carlo_hand_distribution", h, b, MIN_PLAYERS, n) :
        h \in SimHands, b \in SimBoards, n \in 1..MaxTrials}
    \cup {Call("monte_carlo_preflop_distributions", h, <<>>, p, n) :
        h \in SimHands, p \in PlayerCounts, n \in 1..MaxTrials}

InitSim ==
    /\ mc \in SimCalls
    /\ card = <<>> /\ parsed = None
    /\ cards = <<>> /\ hand_analysis = "" /\ deuces_strength = ""
    /\ returned = FALSE
    /\ WindowIdle

Looping(fn) ==
    /\ mc.fn = fn
    /\ mc.raised = "none"
    /\ mc.trial < mc.num_trials

Finished(fn) ==
    /\ mc.fn = fn
    /\ mc.raised = "none"
    /\ mc.trial = mc.num_trials
    /\ ~mc.returned

sim_frame ==
    UNCHANGED <<card, parsed, cards, hand_analysis, deuces_strength, returned,
                card_inputs, players_spin, preflop_cache, cache_file,
                results_area, calls, seen, process>>

OddsTrial ==
    /\ Looping("monte_carlo_odds")
    /\ \E k \in 1..MaxShuffles :
          mc' = odds_iteration(mc, odds_trial(k, mc.hand_cards, mc.board_cards, mc.num_players))
    /\ sim_frame

OddsReturn ==
    /\ Finished("monte_carlo_odds")
    /\ mc' = [mc EXCEPT !.returned = TRUE,
                         !.win_pct = Pct(mc.wins, mc.num_trials),
                         !.tie_pct = Pct(mc.ties, mc.num_trials)]
    /\ sim_frame

DistributionTrial ==
    /\ Looping("monte_carlo_hand_distribution")
    /\ \E k \in 1..MaxShuffles :
          mc' = distribution_iteration(mc, distribution_trial(k, mc.hand_cards, mc.board_cards))
    /\ sim_frame

DistributionReturn ==
    /\ Finished("monte_carlo_hand_distribution")
    /\ mc' = [mc EXCEPT !.returned = TRUE]
    /\ sim_frame

PreflopTrial ==
    /\ Looping("monte_carlo_preflop_distributions")
    /\ \E k \in 1..MaxShuffles :
          mc' = preflop_iteration(mc, preflop_trial(k, mc.hand_cards, mc.num_players))
    /\ sim_frame

PreflopReturn ==
    /\ Finished("monte_carlo_preflop_distributions")
    /\ mc' = [mc EXCEPT !.returned = TRUE]
    /\ sim_frame

NextSim ==
    \/ OddsTrial \/ OddsReturn
    \/ DistributionTrial \/ DistributionReturn
    \/ PreflopTrial \/ PreflopReturn

SpecSim == InitSim /\ [][NextSim]_vars

\* C2: in monte_carlo_odds every iteration increments exactly one of wins,
\* ties, losses, so the three add up to the iterations done and, at the
\* return, to num_trials; the percentages then add up to 100 and each lies
\* in [0, 100].
C2_OddsCountersAddUp ==
    mc.fn = "monte_carlo_odds" =>
        /\ mc.wins + mc.ties + mc.losses = mc.trial
        /\ mc.returned =>
              /\ mc.wins + mc.ties + mc.losses = mc.num_trials
              /\ mc.win_pct[2] = mc.num_trials /\ mc.tie_pct[2] = mc.num_trials
              /\ mc.win_pct[1] + mc.tie_pct[1] + 100 * mc.losses = 100 * mc.num_trials
              /\ \A pct \in {mc.win_pct, mc.tie_pct, Pct(mc.losses, mc.num_trials)} :
                    0 <= pct[1] /\ pct[1] <= 100 * pct[2]

C2_Witness ==
    /\ mc.fn = "monte_carlo_odds"
    /\ mc.returned
    /\ mc.num_trials = MaxTrials
    /\ mc.wins > 0 /\ mc.losses > 0

\* C3: in every iteration of monte_carlo_odds and of
\* monte_carlo_preflop_distributions the hero's and every opponent's hand
\* are evaluated on the same completed 5-card board; the win counter goes
\* up by one iff the hero is strictly stronger (lower rank) than every
\* opponent, the tie counter by one iff the hero equals the strongest
\* opponent, however many opponents tie, and otherwise neither moves (and
\* monte_carlo_odds counts a loss).
C3_OutcomeFollowsStrength ==
    [][ (mc.fn \in {"monte_carlo_odds", "monte_carlo_preflop_distributions"}
            /\ mc'.trial = mc.trial + 1) =>
        LET odds == mc.fn = "monte_carlo_odds"
            opponents == 1..(mc.num_players - 1)
            hero == evaluate(mc'.sim_board, Deuces(mc.hand_cards))
            opp == [j \in opponents |-> evaluate(mc'.sim_board, mc'.opp_hands[j])]
            stronger == \A j \in opponents : hero < opp[j]
            level == (\A j \in opponents : hero <= opp[j]) /\ (\E j \in opponents : hero = opp[j])
            won == IF odds THEN mc'.wins - mc.wins ELSE mc'.win - mc.win
            tied == IF odds THEN mc'.ties - mc.ties ELSE mc'.tie - mc.tie
            lost == mc'.losses - mc.losses
        IN  /\ Len(mc'.sim_board) = 5
            /\ DOMAIN mc'.opp_hands = opponents
            /\ won = (IF stronger THEN 1 ELSE 0)
            /\ tied = (IF level THEN 1 ELSE 0)
            /\ lost = (IF odds /\ ~stronger /\ ~level THEN 1 ELSE 0) ]_vars

\* a first iteration in which at least two opponents tie the hero: one tie
C3_Witness ==
    /\ mc.fn \in {"monte_carlo_odds", "monte_carlo_preflop_distributions"}
    /\ mc.trial = 1
    /\ Cardinality({j \in DOMAIN mc.opp_scores : mc.opp_scores[j] = mc.hero_score}) >= 2
    /\ \A j \in DOMAIN mc.opp_scores : mc.opp_scores[j] >= mc.hero_score
    /\ mc.ties + mc.tie = 1

\* C9: for every player count of the spin box and every known board of 0,
\* 3, 4 or 5 cards no draw of a simulator finds the deck empty (no
\* IndexError), and the deck a trial leaves still holds at least
\* 52 - 2 - 5 - 2 * 9 = 27 cards.
C9_DeckNeverExhausted ==
    mc.fn # "idle" =>
        /\ mc.raised # "IndexError"
        /\ mc.trial > 0 => Len(mc.deck) >= DeckSize - 2 - 5 - 2 * (MAX_PLAYERS - 1)

C9_Witness ==
    /\ mc.fn = "monte_carlo_preflop_distributions"
    /\ mc.num_players = MAX_PLAYERS
    /\ mc.trial > 0
    /\ Len(mc.deck) = DeckSize - 2 - 5 - 2 * (MAX_PLAYERS - 1)
    /\ Len(mc.opp_hands) = MAX_PLAYERS - 1

-----------------------------------------------------------------------------
(* parse_card on its own: every string over ParseChars up to MaxStrLen *)

MaxStrLen == 3

UpperLetters == {"T", "J", "Q", "K", "A", "S", "H", "D", "C"}

ParseChars ==
    RankChars \cup SuitChars \cup UpperLetters \cup {Lower(x) : x \in UpperLetters}
        \cup {" ", "\n", "1", "X", LongS, KelvinK}

ParseInputs == UNION {[1..n -> ParseChars] : n \in 0..MaxStrLen}

InitParse ==
    /\ card \in ParseInputs
    /\ parsed = None
    /\ cards = <<>> /\ hand_analysis = "" /\ deuces_strength = ""
    /\ returned = FALSE
    /\ McIdle /\ WindowIdle

CallParseCard ==
    /\ ~returned
    /\ parsed' = parse_card(card)
    /\ returned' = TRUE
    /\ UNCHANGED <<card, cards, hand_analysis, deuces_strength, mc>>
    /\ UNCHANGED window_vars

SpecParse == InitParse /\ [][CallParseCard]_vars

\* the 52 two-character codes in either letter case
IsCardCode(s) ==
    /\ Len(s) = 2
    /\ s[1] \in RankChars \cup {"t", "j", "q", "k", "a"}
    /\ s[2] \in SuitChars \cup {"S", "H", "D", "C"}

\* the card a code names: its rank and suit, whatever the letter case
CardOfCode(s) == <<Upper(s[1]), Lower(s[2])>>

\* C5: parse_card accepts a string iff it is exactly one rank character
\* followed by one suit character, in either case, and returns None for
\* every other string; an accepted code names one of the 52 cards, the same
\* card for codes that differ only in letter case.
C5_ParseAcceptsExactlyCodes ==
    returned =>
        /\ (parsed # None) <=> IsCardCode(card)
        /\ parsed # None =>
              /\ CardOfCode(parsed) \in CARD_OPTIONS
              /\ CardOfCode(parsed) = CardOfCode(card)

-----------------------------------------------------------------------------
(* analyze_hand and deuces_hand_strength on their own: every 5-, 6- and    *)
(* 7-card subset of the first HandDeckSize cards of StudyOrder             *)

HandDeckSize == 16

StudyOrder ==
    << <<"A","h">>, <<"K","h">>, <<"Q","h">>, <<"J","h">>, <<"T","h">>,
       <<"2","c">>, <<"3","d">>, <<"A","s">>, <<"2","h">>, <<"4","c">>,
       <<"5","s">>, <<"3","h">>, <<"4","h">>, <<"5","h">>, <<"A","d">>,
       <<"A","c">>, <<"K","s">>, <<"6","h">>, <<"9","d">>, <<"2","s">> >>

HandDeck == 1..(IF HandDeckSize < Len(StudyOrder) THEN HandDeckSize ELSE Len(StudyOrder))

HandInputs ==
    {[k \in 1..Cardinality(S) |-> StudyOrder[IndexSeq(S)[k]]] :
        S \in {T \in SUBSET HandDeck : Cardinality(T) \in 5..7}}

InitHand ==
    /\ cards \in HandInputs
    /\ hand_analysis = "" /\ deuces_strength = ""
    /\ card = <<>> /\ parsed = None
    /\ returned = FALSE
    /\ McIdle /\ WindowIdle

\* what calculate_odds does with its cards at lines 455-460: the first two
\* are the hand, the rest the board
CallAnalyze ==
    /\ ~returned
    /\ hand_analysis' = analyze_hand(cards)
    /\ deuces_strength' = deuces_hand_strength(SubSeq(cards, 1, 2), SubSeq(cards, 3, Len(cards)))
    /\ returned' = TRUE
    /\ UNCHANGED <<card, parsed, cards, mc>>
    /\ UNCHANGED window_vars

SpecHand == InitHand /\ [][CallAnalyze]_vars

CardSet == {cards[i] : i \in 1..Len(cards)}
RanksOf(S) == {c[1] : c \in S}
SuitedCount(S, s) == Cardinality({c \in S : c[2] = s})

\* the five cards T, J, Q, K, A of suit s, and the wheel A, 2, 3, 4, 5 of suit s
Broadway(s) == {<<r, s>> : r \in {"T", "J", "Q", "K", "A"}}
Wheel(s) == {<<r, s>> : r \in {"A", "2", "3", "4", "5"}}

HasRoyal(S) == \E s \in SuitChars : Broadway(s) \subseteq S

\* the poker patterns, read off the cards themselves
OfRank(S, r) == Cardinality({c \in S : c[1] = r})
HasFlushPattern(S) == \E s \in SuitChars : SuitedCount(S, s) >= 5
HasQuadsPattern(S) == \E r \in RankChars : OfRank(S, r) = 4
HasFullHousePattern(S) ==
    \E r, q \in RankChars : OfRank(S, r) = 3 /\ OfRank(S, q) = 2

\* the one of the 9 categories a label of analyze_hand names: a High Card
\* label carries the top rank ("High Card: K")
LabelCategory(label) ==
    IF label \in {"High Card: " \o r : r \in RankChars} THEN "High Card" ELSE label

Categories == {class_to_string(k) : k \in 1..9}

C8_WheelIsStraight ==
    returned =>
        /\ ( /\ {"A", "2", "3", "4", "5"} \subseteq RanksOf(CardSet)
             /\ ~HasFlushPattern(CardSet)
             /\ ~HasQuadsPattern(CardSet)
             /\ ~HasFullHousePattern(CardSet) ) => hand_analysis = "Straight"
        /\ (\E s \in SuitChars : Wheel(s) \subseteq CardSet) =>
               hand_analysis = "Straight Flush"

C8_Witness ==
    /\ returned
    /\ CardSet = {<<"A","s">>, <<"2","h">>, <<"3","d">>, <<"4","c">>, <<"5","s">>}
    /\ hand_analysis = "Straight"

-----------------------------------------------------------------------------
(* The window: the dropdowns, the player spin box, the Calculate and Reset *)
(* buttons and the preflop cache with its file                             *)

\* ord() of the characters of the card codes
ord(ch) ==
    CASE ch = "2" -> 50 [] ch = "3" -> 51 [] ch = "4" -> 52 [] ch = "5" -> 53
      [] ch = "6" -> 54 [] ch = "7" -> 55 [] ch = "8" -> 56 [] ch = "9" -> 57
      [] ch = "A" -> 65 [] ch = "J" -> 74 [] ch = "K" -> 75 [] ch = "Q" -> 81
      [] ch = "T" -> 84 [] ch = "c" -> 99 [] ch = "d" -> 100 [] ch = "h" -> 104
      [] ch = "s" -> 115

\* Python's < on strings
RECURSIVE str_lt(_, _)
str_lt(a, b) ==
    IF b = <<>> THEN FALSE
    ELSE IF a = <<>> THEN TRUE
    ELSE IF ord(Head(a)) # ord(Head(b)) THEN ord(Head(a)) < ord(Head(b))
    ELSE str_lt(Tail(a), Tail(b))

RECURSIVE insort(_, _)
insort(list, x) ==
    IF list = <<>> THEN <<x>>
    ELSE IF str_lt(x, Head(list)) THEN <<x>> \o list
    ELSE <<Head(list)>> \o insort(Tail(list), x)

\* sorted(list) on a list of strings
RECURSIVE sorted(_)
sorted(list) ==
    IF list = <<>> THEN <<>>
    ELSE insort(sorted(SubSeq(list, 1, Len(list) - 1)), list[Len(list)])

\* line 484 without sorted
cache_key_AsSelected(hand, players) == hand \o <<players>>

\* line 484: tuple(sorted(hand)) + (players,)
cache_key(hand, players) == sorted(hand) \o <<players>>

\* the tuple monte_carlo_preflop_distributions returns (line 219)
preflop_result(m) == <<m.flop_counts, m.turn_counts, m.river_counts, m.win, m.tie>>

\* monte_carlo_preflop_distributions run to its end: the shuffles of a call
\* are the family's, taken in turn from shuffle k on
RECURSIVE preflop_run(_, _)
preflop_run(m, k) ==
    IF m.raised # "none" \/ m.trial = m.num_trials THEN m
    ELSE preflop_run(preflop_iteration(m, preflop_trial(((k - 1) % MaxShuffles) + 1,
                                                         m.hand_cards, m.num_players)),
                     k + 1)

\* what preflop_cache.pkl can hold when the window is built: no file, a file
\* that cannot be opened, a file pickle.load rejects, a pickled dict (empty
\* or written by an earlier run), a pickle of something that is not a dict
AceKing == << <<"A","s">>, <<"K","h">> >>

EarlierRun ==
    preflop_result(preflop_run(Call("monte_carlo_preflop_distributions",
                                    AceKing, <<>>, MIN_PLAYERS, MaxTrials), 1))

StartupFiles ==
    { [state |-> "missing", content |-> [kind |-> "none"]],
      [state |-> "unreadable", content |-> [kind |-> "none"]],
      [state |-> "truncated", content |-> [kind |-> "none"]],
      [state |-> "pickle", content |-> [kind |-> "dict", entries |-> <<>>]],
      [state |-> "pickle",
       content |-> [kind |-> "dict",
                    entries |-> cache_key(AceKing, MIN_PLAYERS) :> EarlierRun]],
      [state |-> "pickle", content |-> [kind |-> "list"]] }

\* lines 404-411
load_preflop_cache(file) ==
    IF file.state = "missing" THEN [kind |-> "dict", entries |-> <<>>]
    ELSE IF file.state = "pickle" THEN file.content
    ELSE [kind |-> "dict", entries |-> <<>>]

\* The dropdowns offer every code of CARD_OPTIONS.  The model visits these
\* selections of the seven (hand 1, hand 2, flop 1-3, turn, river), '' for
\* a dropdown left on its blank entry.
Selections ==
    LET As == <<"A","s">>  Kh == <<"K","h">>  Qd == <<"Q","d">>  Jc == <<"J","c">>
        Nh == <<"9","h">>  Ts == <<"2","s">>  Fc == <<"5","c">>  no == <<>>
    IN  { <<no, no, no, no, no, no, no>>,
          <<As, Kh, no, no, no, no, no>>,
          <<Kh, As, no, no, no, no, no>>,
          <<As, As, no, no, no, no, no>>,
          <<As, no, no, no, no, no, no>>,
          <<As, Kh, Qd, Jc, no, no, no>>,
          <<As, Kh, Qd, Jc, Nh, no, no>>,
          <<Kh, As, Qd, Jc, Nh, Ts, no>>,
          <<As, Kh, Qd, Jc, Nh, Ts, Fc>>,
          <<As, Kh, Qd, Jc, no, Ts, no>>,
          <<As, Kh, As, Jc, Nh, no, no>>,
          <<As, Kh, Qd, Jc, Qd, no, no>>,
          <<As, no, Qd, Jc, Nh, Ts, no>> }

Slots == 1..7

\* the spin box values the model visits
WindowPlayers == {p \in PlayerCounts : p <= MIN_PLAYERS + 1}

Blank == [i \in Slots |-> <<>>]

\* line 431
IsEntered(c) == strip(c) # <<>>
\* `if c` at lines 453-454
IsChosen(c) == c # <<>>

Elements(list) == {list[i] : i \in 1..Len(list)}

\* lines 430-434: the cards that are not blank, each with what parse_card
\* returned for it
parse_entered(entered) ==
    [i \in 1..Len(entered) |-> [card |-> entered[i], parsed |-> parse_card(entered[i])]]

IsParsed(attempt) == attempt.parsed # None
IsRejected(attempt) == attempt.parsed = None

\* line 437
parsed_cards(attempts) ==
    [i \in 1..Len(SelectSeq(attempts, IsParsed)) |-> SelectSeq(attempts, IsParsed)[i].parsed]

\* the check of line 440 left out
has_duplicates_Never(list) == FALSE

\* line 440: len(parsed_cards) != len(set(parsed_cards))
has_duplicates(list) == Len(list) # Cardinality(Elements(list))

\* lines 435 and 440-441
errors(attempts) ==
    [i \in 1..Len(SelectSeq(attempts, IsRejected)) |->
        [msg |-> "Invalid card", card |-> SelectSeq(attempts, IsRejected)[i].card]]
    \o (IF has_duplicates(parsed_cards(attempts))
        THEN << [msg |-> "Duplicate cards detected!", card |-> <<>>] >>
        ELSE <<>>)

\* lines 450-455
hand_of(inputs) == SelectSeq(SubSeq(inputs, 1, 2), IsChosen)
board_of(inputs) == SelectSeq(SubSeq(inputs, 3, Len(inputs)), IsChosen)

\* one entry of calls
Invoked(fn, cs, board, players) ==
    [fn |-> fn, cards |-> cs, board |-> board, players |-> players]

parse_calls(attempts) ==
    {Invoked("parse_card", <<attempts[i].card>>, <<>>, 0) : i \in 1..Len(attempts)}

\* what every Calculate that got past validation has invoked by line 456
analysis_calls(attempts, hand, board) ==
    {Invoked("calculate_odds", <<>>, <<>>, 0)} \cup parse_calls(attempts)
        \cup {Invoked("analyze_hand", hand \o board, <<>>, 0)}

\* lines 459 and 467 asking for any board card instead of five cards in all
CanSimulate_AnyBoard(hand, board) == Len(hand) = 2 /\ Len(board) >= 1

\* lines 459 and 467
CanSimulate(hand, board) == Len(hand) = 2 /\ Len(hand) + Len(board) >= 5

\* line 483
IsPreflop(hand, board) == Len(hand) = 2 /\ \A i \in 1..Len(board) : board[i] = <<>>

\* the exception monte_carlo_odds or monte_carlo_hand_distribution raises
\* while dealing
deal_error(hand, board, players) ==
    IF \E k \in 1..MaxShuffles : odds_trial(k, hand, board, players).error # "none"
    THEN (CHOOSE e \in {odds_trial(k, hand, board, players).error : k \in 1..MaxShuffles} :
            e # "none")
    ELSE IF \E k \in 1..MaxShuffles : distribution_trial(k, hand, board).error # "none"
    THEN (CHOOSE e \in {distribution_trial(k, hand, board).error : k \in 1..MaxShuffles} :
            e # "none")
    ELSE "none"

\* how many cards each Evaluator.evaluate of an invoked function is given:
\* board and hand at line 117; the completed board and a hand at lines
\* 144-145 and 175; flop, turn and river with the hand and the river with an
\* opponent's two cards at lines 196-214
evaluated_sizes(c) ==
    IF c.fn = "deuces_hand_strength" THEN {Len(c.board) + Len(c.cards)}
    ELSE IF c.fn = "monte_carlo_odds"
    THEN {Max({5, Len(c.board)}) + Len(c.cards), Max({5, Len(c.board)}) + 2}
    ELSE IF c.fn = "monte_carlo_hand_distribution"
    THEN {Max({5, Len(c.board)}) + Len(c.cards)}
    ELSE IF c.fn = "monte_carlo_preflop_distributions"
    THEN {3 + Len(c.cards), 4 + Len(c.cards), 5 + Len(c.cards), 5 + 2}
    ELSE {}

simulation_calls(hand, board, players) ==
    {Invoked("deuces_hand_strength", hand, board, 0),
     Invoked("monte_carlo_odds", hand, board, players)}
    \cup (IF \E k \in 1..MaxShuffles : odds_trial(k, hand, board, players).error # "none"
          THEN {}
          ELSE {Invoked("monte_carlo_hand_distribution", hand, board, 0)})

\* PokerOddsCalculator.__init__: empty dropdowns, two players, the cache
\* loaded from whatever the file holds (line 390)
Init ==
    /\ ProbeIdle /\ McIdle
    /\ card_inputs = Blank
    /\ players_spin = 2
    /\ \E file \in StartupFiles :
          /\ cache_file = file.state
          /\ preflop_cache = load_preflop_cache(file)
    /\ results_area = [kind |-> "cleared"]
    /\ calls = {}
    /\ seen = <<>>
    /\ process = "running"

window_frame == UNCHANGED <<card, parsed, cards, hand_analysis, deuces_strength, returned, mc>>

\* the user's picks in the dropdowns between two presses of a button
SelectCards ==
    /\ process = "running"
    /\ \E selection \in Selections \ {card_inputs} : card_inputs' = selection
    /\ calls' = {}
    /\ UNCHANGED <<players_spin, preflop_cache, cache_file, results_area, seen, process>>
    /\ window_frame

\* the user changes the spin box
SetPlayers ==
    /\ process = "running"
    /\ \E p \in WindowPlayers \ {players_spin} : players_spin' = p
    /\ calls' = {}
    /\ UNCHANGED <<card_inputs, preflop_cache, cache_file, results_area, seen, process>>
    /\ window_frame

\* lines 443-445: the errors are shown and the handler returns
CalculateRejected(attempts) ==
    /\ errors(attempts) # <<>>
    /\ results_area' = [kind |-> "errors", errors |-> errors(attempts)]
    /\ calls' = {Invoked("calculate_odds", <<>>, <<>>, 0)} \cup parse_calls(attempts)
    /\ UNCHANGED <<preflop_cache, cache_file, seen, process>>

\* lines 456-480 and 521-534: the hand is classified, and with two hole
\* cards and five cards or more it is evaluated and simulated
CalculatePostflop(attempts, hand, board) ==
    /\ errors(attempts) = <<>>
    /\ ~IsPreflop(hand, board)
    /\ calls' = analysis_calls(attempts, hand, board)
                  \cup (IF CanSimulate(hand, board)
                        THEN simulation_calls(hand, board, players_spin) ELSE {})
    /\ IF CanSimulate(hand, board) /\ deal_error(hand, board, players_spin) # "none"
       THEN /\ process' = "aborted"
            /\ UNCHANGED results_area
       ELSE /\ results_area' = [kind |-> "postflop"]
            /\ UNCHANGED process
    /\ UNCHANGED <<preflop_cache, cache_file, seen>>

\* the preflop query of this press, whatever the order of the two dropdowns
Query(hand, players) == <<Elements(hand), players>>

\* the first answer to a query, and the hole cards as they were entered then
Remember(query, hand, value) ==
    IF query \in DOMAIN seen THEN seen
    ELSE (query :> [hand |-> hand, value |-> value]) @@ seen

\* monte_carlo_preflop_distributions(hand, players, num_trials) as
\* calculate_odds calls it at line 488, num_trials being MaxTrials for 500000:
\* the call's final state for each pair of selected hole cards, player count
\* and first shuffle
monte_carlo_preflop_distributions ==
    [call \in {hand_of(selection) : selection \in {sel \in Selections : Len(hand_of(sel)) = 2}}
                \X WindowPlayers \X (1..MaxShuffles) |->
        preflop_run(Call("monte_carlo_preflop_distributions",
                         call[1], <<>>, call[2], MaxTrials), call[3])]

\* lines 485-486 and 491-519: the stored tuple is unpacked and shown
PreflopHit(attempts, hand, key) ==
    /\ preflop_cache.kind = "dict"
    /\ key \in DOMAIN preflop_cache.entries
    /\ results_area' = [kind |-> "preflop", value |-> preflop_cache.entries[key]]
    /\ calls' = analysis_calls(attempts, hand, <<>>)
    /\ seen' = Remember(Query(hand, players_spin), hand, preflop_cache.entries[key])
    /\ UNCHANGED <<preflop_cache, cache_file, process>>

\* save_preflop_cache, lines 413-418: the file is rewritten, or the write
\* fails on the file open() has truncated
save_preflop_cache ==
    cache_file' \in {"pickle", "truncated"}

\* lines 488-490 and 491-519: the simulation m ran, its result is stored
\* under the key, the file is saved and the result is shown; a simulation
\* that raised, or a cache that takes no item assignment, ends the handler
PreflopStore(attempts, hand, key, m) ==
    /\ calls' = analysis_calls(attempts, hand, <<>>)
                  \cup {Invoked("monte_carlo_preflop_distributions", hand, <<>>, players_spin)}
                  \cup (IF m.raised = "none" /\ preflop_cache.kind = "dict"
                        THEN {Invoked("save_preflop_cache", <<>>, <<>>, 0)} ELSE {})
    /\ IF m.raised # "none" \/ preflop_cache.kind # "dict"
       THEN /\ process' = "aborted"
            /\ UNCHANGED <<preflop_cache, cache_file, results_area, seen>>
       ELSE /\ preflop_cache' =
                  [preflop_cache EXCEPT !.entries = (key :> preflop_result(m)) @@ @]
            /\ save_preflop_cache
            /\ results_area' = [kind |-> "preflop", value |-> preflop_result(m)]
            /\ seen' = Remember(Query(hand, players_spin), hand, preflop_result(m))
            /\ UNCHANGED process

\* line 485 finds no key: in a dict without it, or in a list
PreflopMiss(attempts, hand, key) ==
    /\ ~(preflop_cache.kind = "dict" /\ key \in DOMAIN preflop_cache.entries)
    /\ \E k \in 1..MaxShuffles :
          PreflopStore(attempts, hand, key,
                       monte_carlo_preflop_distributions[<<hand, players_spin, k>>])

\* lines 456 and 483-519
CalculatePreflop(attempts, hand, board) ==
    /\ errors(attempts) = <<>>
    /\ IsPreflop(hand, board)
    /\ \/ PreflopHit(attempts, hand, cache_key(hand, players_spin))
       \/ PreflopMiss(attempts, hand, cache_key(hand, players_spin))

\* calculate_odds, lines 420-534; num_trials is MaxTrials for 75000 and 500000
Calculate ==
    /\ process = "running"
    /\ \E attempts \in {parse_entered(SelectSeq(card_inputs, IsEntered))} :
          \/ CalculateRejected(attempts)
          \/ CalculatePostflop(attempts, hand_of(card_inputs), board_of(card_inputs))
          \/ CalculatePreflop(attempts, hand_of(card_inputs), board_of(card_inputs))
    /\ UNCHANGED <<card_inputs, players_spin>>
    /\ window_frame

\* reset_fields emptying the cache as well
Reset_ClearingCache ==
    /\ process = "running"
    /\ card_inputs' = Blank
    /\ players_spin' = 2
    /\ results_area' = [kind |-> "cleared"]
    /\ calls' = {Invoked("reset_fields", <<>>, <<>>, 0)}
    /\ preflop_cache' = [kind |-> "dict", entries |-> <<>>]
    /\ UNCHANGED <<cache_file, seen, process>>
    /\ window_frame

\* reset_fields, lines 536-541
Reset ==
    /\ process = "running"
    /\ card_inputs' = Blank
    /\ players_spin' = 2
    /\ results_area' = [kind |-> "cleared"]
    /\ calls' = {Invoked("reset_fields", <<>>, <<>>, 0)}
    /\ UNCHANGED <<preflop_cache, cache_file, seen, process>>
    /\ window_frame

Next ==
    \/ SelectCards
    \/ SetPlayers
    \/ Calculate
    \/ Reset

Spec == Init /\ [][Next]_vars

-----------------------------------------------------------------------------
(* Claims about the window *)

PressedCalculate(invoked) == Invoked("calculate_odds", <<>>, <<>>, 0) \in invoked

Ran(invoked, fn) == \E c \in invoked : c.fn = fn

\* two hole cards and an empty board are selected
PreflopSelected == Len(hand_of(card_inputs)) = 2 /\ board_of(card_inputs) = <<>>

\* C1: a preflop Calculate whose two hole cards, in either order, and player
\* count were those of an earlier preflop Calculate of this process shows the
\* very tuple the earlier one showed and does not run
\* monte_carlo_preflop_distributions again.
C1_RepeatedPreflopServedFromCache ==
    [][ (/\ PressedCalculate(calls')
         /\ PreflopSelected
         /\ Query(hand_of(card_inputs), players_spin) \in DOMAIN seen)
        => (/\ process' = "running"
            /\ results_area' =
                 [kind |-> "preflop",
                  value |-> seen[Query(hand_of(card_inputs), players_spin)].value]
            /\ ~Ran(calls', "monte_carlo_preflop_distributions")) ]_vars

\* a Calculate has just answered a query from the cache that this process
\* first answered with the hole cards entered the other way round, for a
\* player count no earlier run had stored
C1_Witness ==
    /\ PressedCalculate(calls)
    /\ PreflopSelected
    /\ players_spin = MIN_PLAYERS + 1
    /\ Query(hand_of(card_inputs), players_spin) \in DOMAIN seen
    /\ seen[Query(hand_of(card_inputs), players_spin)].hand # hand_of(card_inputs)
    /\ results_area = [kind |-> "preflop",
                       value |-> seen[Query(hand_of(card_inputs), players_spin)].value]
    /\ ~Ran(calls, "monte_carlo_preflop_distributions")

\* two dropdowns hold the same card
DuplicateSelected ==
    \E i \in Slots : \E j \in Slots :
        i # j /\ card_inputs[i] # <<>> /\ card_inputs[i] = card_inputs[j]

DuplicateReported(area) ==
    /\ area.kind = "errors"
    /\ \E i \in 1..Len(area.errors) : area.errors[i].msg = "Duplicate cards detected!"

\* C4: a Calculate pressed while two dropdowns hold the same card shows the
\* duplicate-card error, runs neither analyze_hand nor deuces_hand_strength
\* nor any simulator, and leaves the preflop cache as it was.
C4_DuplicatesRejectedBeforeAnyWork ==
    [][ (PressedCalculate(calls') /\ DuplicateSelected)
        => (/\ DuplicateReported(results_area')
            /\ \A c \in calls' : c.fn \in {"calculate_odds", "parse_card"}
            /\ preflop_cache' = preflop_cache
            /\ process' = "running") ]_vars

\* Calculate has just rejected a selection whose two hole cards are the
\* same card
C4_Witness ==
    /\ PressedCalculate(calls)
    /\ DuplicateSelected
    /\ card_inputs[1] = card_inputs[2]
    /\ DuplicateReported(results_area)

\* C10: whatever preflop_cache.pkl held when the window was built, no
\* Calculate raises.
C10_CalculateNeverRaises == process = "running"

Simulators ==
    {"monte_carlo_odds", "monte_carlo_hand_distribution", "monte_carlo_preflop_distributions"}

\* C11: whatever was selected, reset and calculated before, a simulator is
\* only ever invoked with the two selected hole cards and the selected board,
\* monte_carlo_odds and monte_carlo_hand_distribution with a board of 3, 4 or
\* 5 cards and monte_carlo_preflop_distributions with an empty one, and no
\* Evaluator.evaluate is given fewer than 5 cards.
C11_SimulatorsGetWholeBoards ==
    \A c \in calls :
        /\ c.fn \in Simulators =>
              /\ Len(c.cards) = 2
              /\ c.cards = hand_of(card_inputs)
              /\ c.board = board_of(card_inputs)
        /\ c.fn \in {"monte_carlo_odds", "monte_carlo_hand_distribution"} =>
              Len(c.board) \in {3, 4, 5}
        /\ c.fn = "monte_carlo_preflop_distributions" => c.board = <<>>
        /\ \A n \in evaluated_sizes(c) : n >= 5

\* Calculate has just run on two hole cards and a board of two cards: the
\* hand was handed to analyze_hand and no simulator or evaluator was invoked
C11_Witness ==
    /\ PressedCalculate(calls)
    /\ Len(hand_of(card_inputs)) = 2
    /\ Len(board_of(card_inputs)) = 2
    /\ results_area = [kind |-> "postflop"]
    /\ Ran(calls, "analyze_hand")
    /\ \A c \in calls : c.fn \notin Simulators /\ c.fn # "deuces_hand_strength"

-----------------------------------------------------------------------------
(* Claims about the decks of the simulators *)

\* the cards a simulator was called with, the cards its last iteration drew
\* for the board and the cards it dealt to the opponents
KnownCards == Elements(Deuces(mc.hand_cards \o mc.board_cards))
BoardDrawn == {mc.sim_board[i] : i \in (Len(mc.board_cards) + 1)..Len(mc.sim_board)}
OpponentCards == UNION {Elements(mc.opp_hands[j]) : j \in DOMAIN mc.opp_hands}

\* C12: whatever the earlier iterations drew, the deck an iteration leaves
\* and the cards it drew make up the 52 cards less the hero's hole cards and
\* the known board, each once; the hero's two cards, the five cards of the
\* completed board, which begins with the known board, and the two cards of
\* every opponent are pairwise distinct.
C12_FreshDeckDistinctCards ==
    (mc.fn # "idle" /\ mc.trial > 0) =>
        /\ Elements(mc.deck) \cup BoardDrawn \cup OpponentCards
              = Elements(FullDeck) \ KnownCards
        /\ Len(mc.deck) + Cardinality(BoardDrawn) + Cardinality(OpponentCards)
              = DeckSize - Cardinality(KnownCards)
        /\ Len(mc.sim_board) = 5
        /\ SubSeq(mc.sim_board, 1, Len(mc.board_cards)) = Deuces(mc.board_cards)
        /\ \A j \in DOMAIN mc.opp_hands : Len(mc.opp_hands[j]) = 2
        /\ Cardinality(Elements(Deuces(mc.hand_cards)) \cup Elements(mc.sim_board)
                         \cup OpponentCards)
              = 2 + 5 + 2 * Len(mc.opp_hands)

\* monte_carlo_odds has dealt its last iteration, after an earlier one, on a
\* known flop: two board cards and three opponents' hands came off the deck
C12_Witness ==
    /\ mc.fn = "monte_carlo_odds"
    /\ mc.trial = MaxTrials /\ mc.trial > 1
    /\ Len(mc.board_cards) = 3
    /\ Cardinality(BoardDrawn) = 2
    /\ Len(mc.opp_hands) = 3
    /\ Cardinality(OpponentCards) = 6

-----------------------------------------------------------------------------
(* Claims about the preflop cache *)

\* the cache holds an answer for these hole cards, in either order, and
\* this player count
HasEntry(cache, hand, players) ==
    /\ cache.kind = "dict"
    /\ \E key \in DOMAIN cache.entries :
          {key[1], key[2]} = Elements(hand) /\ key[3] = players

\* the cache after the step holds what it held before and one key more
OneKeyInserted ==
    /\ preflop_cache.kind = "dict" /\ preflop_cache'.kind = "dict"
    /\ DOMAIN preflop_cache.entries \subseteq DOMAIN preflop_cache'.entries
    /\ Cardinality(DOMAIN preflop_cache'.entries \ DOMAIN preflop_cache.entries) = 1
    /\ \A key \in DOMAIN preflop_cache.entries :
          preflop_cache'.entries[key] = preflop_cache.entries[key]

\* the step is a Calculate that got past validation on two hole cards and
\* an empty board and found no entry for them
PreflopMissStep ==
    /\ PressedCalculate(calls')
    /\ ~DuplicateSelected
    /\ PreflopSelected
    /\ ~HasEntry(preflop_cache, hand_of(card_inputs), players_spin)

\* C13: the preflop cache changes only in a preflop Calculate that misses,
\* and then by exactly one new key, the stored values staying as they were;
\* a preflop Calculate that misses and returns has inserted one key; a hit,
\* a Calculate with board cards, a rejected Calculate and Reset leave the
\* cache as it was.
C13_CacheChangesOnlyOnMiss ==
    [][ /\ preflop_cache' # preflop_cache => (PreflopMissStep /\ OneKeyInserted)
        /\ (PreflopMissStep /\ process' = "running") => OneKeyInserted
        /\ (PressedCalculate(calls') /\ ~PreflopMissStep) => preflop_cache' = preflop_cache
        /\ Ran(calls', "reset_fields") => preflop_cache' = preflop_cache ]_vars

\* a Calculate has just computed and stored a second entry beside the first
C13_Witness ==
    /\ PressedCalculate(calls)
    /\ Ran(calls, "monte_carlo_preflop_distributions")
    /\ Ran(calls, "save_preflop_cache")
    /\ preflop_cache.kind = "dict"
    /\ Cardinality(DOMAIN preflop_cache.entries) = 2
    /\ HasEntry(preflop_cache, hand_of(card_inputs), players_spin)
    /\ results_area.kind = "preflop"

=============================================================================
